---- MODULE Spec2Model ----
(***************************************************************************)
(* hookman: installation of git hook scripts from a declarative config.    *)
(* Model of src/main.rs: configuration loading and merging, name           *)
(* resolution, per-stage grouping, rendering and installation onto the     *)
(* hook directory.  Text (names, commands, file contents) is a sequence    *)
(* of one-character strings.                                               *)
(***************************************************************************)
EXTENDS Integers, Sequences, FiniteSets, TLC

(***************************************************************************)
(* Bounds of the model.                                                    *)
(***************************************************************************)
\* longest local configuration file, in hooks
MaxHooks == 2
\* number of times the same command line is invoked in one behaviour
MaxRuns == 2

(***************************************************************************)
(* Text helpers.                                                           *)
(***************************************************************************)
RECURSIVE Concat(_)
Concat(ss) == IF ss = <<>> THEN <<>> ELSE Head(ss) \o Concat(Tail(ss))

Digits == <<"0", "1", "2", "3", "4", "5", "6", "7", "8", "9">>

\* format!("{}", n) for an unsigned integer
RECURSIVE Decimal(_)
Decimal(n) ==
    IF n < 10 THEN <<Digits[n + 1]>>
    ELSE Decimal(n \div 10) \o <<Digits[(n % 10) + 1]>>

\* str::to_lowercase over the alphabet of the model
UpperChars == <<"F", "I", "T">>
LowerChars == <<"f", "i", "t">>
LowerChar(c) ==
    IF \E i \in 1..Len(UpperChars) : UpperChars[i] = c
    THEN LowerChars[CHOOSE i \in 1..Len(UpperChars) : UpperChars[i] = c]
    ELSE c
to_lowercase(s) == [i \in 1..Len(s) |-> LowerChar(s[i])]

IsWhitespace(c) == c \in {" ", "\t", "\n"}

\* str::split_whitespace: the maximal runs of non-whitespace characters
RECURSIVE SplitFrom(_, _, _)
SplitFrom(s, cur, acc) ==
    IF s = <<>> THEN (IF cur = <<>> THEN acc ELSE Append(acc, cur))
    ELSE IF IsWhitespace(Head(s))
         THEN SplitFrom(Tail(s), <<>>, IF cur = <<>> THEN acc ELSE Append(acc, cur))
         ELSE SplitFrom(Tail(s), Append(cur, Head(s)), acc)
split_whitespace(s) == SplitFrom(s, <<>>, <<>>)

\* a join that writes the separator in front of every word
RECURSIVE join_leading(_, _)
join_leading(words, sep) ==
    IF words = <<>> THEN <<>>
    ELSE sep \o Head(words) \o join_leading(Tail(words), sep)

\* [&str]::join(sep)
RECURSIVE join(_, _)
join(words, sep) ==
    IF words = <<>> THEN <<>>
    ELSE IF Len(words) = 1 THEN Head(words)
    ELSE Head(words) \o sep \o join(Tail(words), sep)

sanitise_name(n) == join(split_whitespace(to_lowercase(n)), <<"_">>)

(***************************************************************************)
(* Stage, Hook, NameGen, HookContext.                                      *)
(***************************************************************************)
Stages == {"PrePush", "PostCommit", "PreCommit"}

\* Option<String>::None
None == [some |-> FALSE]
Some(n) == [some |-> TRUE, val |-> n]

Hook(name, command, stage, background, pass_git_files) ==
    [name |-> name, command |-> command, stage |-> stage,
     background |-> background, pass_git_files |-> pass_git_files]

\* NameGen::new
NameGen_new == 0

HookPrefix == <<"h", "o", "o", "k", "_">>

\* NameGen::generate without the increment of the counter
NameGen_generate_stuck(i) == [name |-> HookPrefix \o Decimal(i), i |-> i]

\* NameGen::generate: the name returned and the counter afterwards
NameGen_generate(i) == [name |-> HookPrefix \o Decimal(i), i |-> i + 1]

GitFilesExpr ==
    <<"$", "(", "g", "i", "t", " ", "l", "s", "-", "f", "i", "l", "e", "s", ")">>

\* name resolution on a copy of the NameGen: the counter is not advanced
ResolveName_by_value(h, i) ==
    IF h.name.some THEN [name |-> sanitise_name(h.name.val), i |-> i]
    ELSE [name |-> NameGen_generate(i).name, i |-> i]

\* the command with the file list appended without the space
ResolveCommand_nospace(h) ==
    IF h.pass_git_files THEN h.command \o GitFilesExpr ELSE h.command

\* Hook::context: the HookContext and the counter afterwards
ResolveName(h, i) ==
    IF h.name.some THEN [name |-> sanitise_name(h.name.val), i |-> i]
    ELSE NameGen_generate(i)
ResolveCommand(h) ==
    IF h.pass_git_files THEN h.command \o <<" ">> \o GitFilesExpr ELSE h.command
Hook_context(h, i) ==
    [ctx |-> [name |-> ResolveName(h, i).name,
              original_name |-> h.name,
              command |-> ResolveCommand(h),
              background |-> h.background],
     i |-> ResolveName(h, i).i]

\* the map over the hooks in generate_hook_contents, threading the counter
RECURSIVE ContextsFrom(_, _, _)
ContextsFrom(hooks, i, acc) ==
    IF hooks = <<>> THEN [ctxs |-> acc, i |-> i]
    ELSE ContextsFrom(Tail(hooks), Hook_context(Head(hooks), i).i,
                      Append(acc, Hook_context(Head(hooks), i).ctx))

\* templates/hook.sh rendered over the contexts
ScriptHeader == <<"#", "!", "/", "b", "i", "n", "/", "s", "h", "\n">>
RenderHook(c) ==
    <<"#", " ">> \o c.name \o <<"\n">>
    \o c.command \o (IF c.background THEN <<" ", "&">> ELSE <<>>) \o <<"\n">>
Render(ctxs) ==
    ScriptHeader \o Concat([k \in 1..Len(ctxs) |-> RenderHook(ctxs[k])])

\* Generator::generate_hook_contents
generate_hook_contents(hooks, i) ==
    [contents |-> Render(ContextsFrom(hooks, i, <<>>).ctxs),
     ctxs |-> ContextsFrom(hooks, i, <<>>).ctxs,
     i |-> ContextsFrom(hooks, i, <<>>).i]

\* hooks_per_stage that puts each hook at the front of its stage's list
RECURSIVE GroupFromFront(_, _)
GroupFromFront(hooks, acc) ==
    IF hooks = <<>> THEN acc
    ELSE GroupFromFront(Tail(hooks),
            IF Head(hooks).stage \in DOMAIN acc
            THEN [acc EXCEPT ![Head(hooks).stage] = <<Head(hooks)>> \o @]
            ELSE acc @@ (Head(hooks).stage :> <<Head(hooks)>>))
hooks_per_stage_of_prepending(hooks) == GroupFromFront(hooks, <<>>)

\* Generator::hooks_per_stage: the loop over the hooks of the config
RECURSIVE GroupFrom(_, _)
GroupFrom(hooks, acc) ==
    IF hooks = <<>> THEN acc
    ELSE GroupFrom(Tail(hooks),
            IF Head(hooks).stage \in DOMAIN acc
            THEN [acc EXCEPT ![Head(hooks).stage] = Append(@, Head(hooks))]
            ELSE acc @@ (Head(hooks).stage :> <<Head(hooks)>>))
hooks_per_stage_of(hooks) == GroupFrom(hooks, <<>>)

\* the orders in which iterating a HashMap may yield its keys
IterationOrders(m) ==
    {o \in [1..Cardinality(DOMAIN m) -> DOMAIN m] :
        \A a, b \in 1..Cardinality(DOMAIN m) : a # b => o[a] # o[b]}

\* ConfigLocation::merge: self's hooks, then each hook of other pushed
RECURSIVE PushAll(_, _)
PushAll(dst, src) ==
    IF src = <<>> THEN dst ELSE PushAll(Append(dst, Head(src)), Tail(src))
merge(self, other) == PushAll(self, other)

(***************************************************************************)
(* The hook directory.  Its dir field is "absent" or the owner's           *)
(* permissions on it: "rwx", "r-x" (no entry can be added or removed),     *)
(* "-wx" (it cannot be listed).                                            *)
(***************************************************************************)
\* the match in compute_hook_path
StageStub(stage) ==
    CASE stage = "PrePush" -> "pre-push"
      [] stage = "PostCommit" -> "post-commit"
      [] stage = "PreCommit" -> "pre-commit"

EntryNames == {"pre-commit", "pre-push", "post-commit", "update.sample"}

Absent == [kind |-> "absent"]
SubDir == [kind |-> "dir"]
File(content, mode) == [kind |-> "file", content |-> content, mode |-> mode]

\* permission bits of a file mode
OwnerWrite(mode) == (mode \div 128) % 2 = 1
OwnerExec(mode) == (mode \div 64) % 2 = 1
GroupExec(mode) == (mode \div 8) % 2 = 1

\* the mode handed to OpenOptions in write_file, 0o770
CreateMode == 504

\* Path::read_dir on the hook directory
read_dir(f) ==
    IF f.dir = "absent" THEN [ok |-> FALSE, kind |-> "NotFound"]
    ELSE IF f.dir = "-wx" THEN [ok |-> FALSE, kind |-> "PermissionDenied"]
    ELSE [ok |-> TRUE, kind |-> "",
          entries |-> {n \in EntryNames : f.entries[n].kind # "absent"}]

\* the entries clear_hooks collects for removal
remove_candidates(f) ==
    {n \in read_dir(f).entries : f.entries[n].kind = "file"}

\* std::fs::remove_file needs write permission on the directory
CanUnlink(f) == f.dir \in {"rwx", "-wx"}
RemoveAll(f, names) ==
    [f EXCEPT !.entries = [n \in EntryNames |-> IF n \in names THEN Absent ELSE @[n]]]

\* Path::is_dir on the hook directory, Path::exists on a path inside it
is_dir(f) == f.dir # "absent"
exists(f, path) == f.dir # "absent" /\ f.entries[path].kind # "absent"

\* std::fs::create_dir_all on the hook directory
create_dir_all(f) == IF f.dir = "absent" THEN [f EXCEPT !.dir = "rwx"] ELSE f

\* the filesystem effect of compute_hook_path
compute_hook_path_fs(f) == IF ~is_dir(f) THEN create_dir_all(f) ELSE f

\* the overwrite guard with the force flag inverted
destination_exists_error_inverted(f, path, force) == exists(f, path) /\ force

\* the overwrite guard of generate_hook
destination_exists_error(f, path, force) == exists(f, path) /\ ~force

\* OpenOptions::new().create(true).write(true).mode(0o770).open(path)
CanOpen(f, path) ==
    CASE f.entries[path].kind = "absent" -> f.dir \in {"rwx", "-wx"}
      [] f.entries[path].kind = "file" -> OwnerWrite(f.entries[path].mode)
      [] OTHER -> FALSE
Opened(f, path) ==
    IF f.entries[path].kind = "absent"
    THEN [f EXCEPT !.entries[path] = File(<<>>, CreateMode)]
    ELSE f

\* write! from offset 0 of the opened file
WrittenOver(old, contents) ==
    contents \o SubSeq(old, Len(contents) + 1, Len(old))

\* Generator::write_file on a file that can be opened
write_file(f, path, contents) ==
    [Opened(f, path) EXCEPT
        !.entries[path].content = WrittenOver(@, contents)]

(***************************************************************************)
(* Inputs: configuration files, command line, environment.                 *)
(***************************************************************************)
HookLs   == Hook(None, <<"l">>, "PreCommit", FALSE, FALSE)
HookPush == Hook(None, <<"p">>, "PrePush", TRUE, FALSE)
HookTags == Hook(Some(<<"T", "a", "g", " ", "I", "t">>), <<"c">>, "PostCommit", FALSE, TRUE)
HookFmt  == Hook(Some(<<"F", "m", "t">>), <<"f">>, "PreCommit", FALSE, FALSE)

LocalHooks == {HookLs, HookPush}
GlobalHooks == {HookFmt, HookTags}

SeqsUpTo(S, n) == UNION {[1..k -> S] : k \in 0..n}

\* what reading and parsing a configuration file can give
LocalFiles ==
    {[status |-> "Ok", hooks |-> c] : c \in SeqsUpTo(LocalHooks, MaxHooks)}
    \cup {[status |-> st, hooks |-> <<>>] : st \in {"NotFound", "Malformed"}}
GlobalFiles ==
    {[status |-> "Ok", hooks |-> <<g>>] : g \in GlobalHooks}
    \cup {[status |-> st, hooks |-> <<>>] :
            st \in {"NotFound", "Unreadable", "Malformed"}}

\* what `git rev-parse --git-dir` can give
GitOutcomes == {"Ok", "Failed", "Empty"}

\* a file left in the hook directory by something else: 30 bytes, mode 0o644
OldLen == 30
OldFile == File([k \in 1..OldLen |-> "x"], 420)

\* what the hook directory may hold before the first run
Listing(a, b) ==
    [n \in EntryNames |->
        IF n = "pre-commit" THEN a ELSE IF n = "update.sample" THEN b ELSE Absent]
InitialListings ==
    {Listing(Absent, Absent), Listing(OldFile, Absent),
     Listing(Absent, OldFile), Listing(OldFile, SubDir)}
InitialDirs ==
    {[dir |-> "absent", entries |-> Listing(Absent, Absent)]}
    \cup {[dir |-> d, entries |-> l] :
            d \in {"rwx", "r-x", "-wx"}, l \in InitialListings}

(***************************************************************************)
(* State.                                                                  *)
(***************************************************************************)
VARIABLES
    args,             \* Commands::Install: dry_run, force, no_remove
    env,              \* the two configuration files and git's answer
    fs,               \* the hook directory
    pc,               \* position of the run
    run,              \* number of runs started
    config,           \* hooks of the ConfigLocation the run works on
    name_gen,         \* Generator.name_gen.i
    hooks_per_stage,  \* the map built by install
    order,            \* stages the for loop of install has yet to yield
    out,              \* per stage handled: contexts, contents, destination
    err,              \* the error the run ended with
    failures,         \* every Err an operation of the run returned
    startFs,          \* the hook directory when the run started
    prev,             \* the previous run: result, out, hook directory
    san,              \* sanitise_name applied to a name, once and again
    res               \* Hook::context applied to a list of hooks

installVars == <<args, env, fs, pc, run, config, name_gen, hooks_per_stage,
                 order, out, err, failures, startFs, prev>>
vars == <<installVars, san, res>>

\* san and res while no pure function is exercised
SanIdle == [n |-> <<>>, once |-> <<>>, twice |-> <<>>, steps |-> 0]
ResIdle == [hooks |-> <<>>, given |-> <<>>, i |-> NameGen_new, ctxs |-> <<>>,
            again |-> <<>>]

NoError == [kind |-> "none", path |-> ""]
Error(kind, path) == [kind |-> kind, path |-> path]
Failure(op, kind) == [op |-> op, kind |-> kind]
NoPrev == [valid |-> FALSE]

Ended == pc \in {"ok", "failed"}

Init ==
    /\ args \in [dry_run : BOOLEAN, force : BOOLEAN, no_remove : BOOLEAN]
    /\ env \in [local : LocalFiles, global : GlobalFiles, git : GitOutcomes]
    /\ fs \in InitialDirs
    /\ pc = "start"
    /\ run = 0
    /\ config = <<>>
    /\ name_gen = NameGen_new
    /\ hooks_per_stage = <<>>
    /\ order = <<>>
    /\ out = <<>>
    /\ err = NoError
    /\ failures = <<>>
    /\ startFs = fs
    /\ prev = NoPrev
    /\ san = SanIdle
    /\ res = ResIdle

(***************************************************************************)
(* main, Commands::Install.                                                *)
(***************************************************************************)
\* Config::from_path on a file of the given status
ConfigError(status) ==
    IF status = "Malformed" THEN "parsing config file" ELSE "reading config file"

\* process start and ConfigLocation::from_path(config_path)?
Main_LoadLocal ==
    /\ pc \in {"start", "ok", "failed"}
    /\ run < MaxRuns
    /\ run' = run + 1
    /\ prev' = IF run = 0 THEN NoPrev
               ELSE [valid |-> TRUE, pc |-> pc, out |-> out, fs |-> fs]
    /\ startFs' = fs
    /\ name_gen' = NameGen_new
    /\ hooks_per_stage' = <<>>
    /\ order' = <<>>
    /\ out' = <<>>
    /\ IF env.local.status = "Ok"
       THEN /\ config' = env.local.hooks
            /\ err' = NoError
            /\ failures' = <<>>
            /\ pc' = "load_global"
       ELSE /\ config' = <<>>
            /\ err' = Error(ConfigError(env.local.status), "")
            /\ failures' = <<Failure("local_config", env.local.status)>>
            /\ pc' = "failed"
    /\ UNCHANGED <<args, env, fs>>
    /\ UNCHANGED <<san, res>>

\* the match on ConfigLocation::global() and Generator::new
Main_LoadGlobal ==
    /\ pc = "load_global"
    /\ IF env.global.status = "Ok"
       THEN /\ config' = merge(env.global.hooks, config)
            /\ failures' = failures
       ELSE /\ config' = config
            /\ failures' = Append(failures, Failure("global_config", env.global.status))
    /\ name_gen' = NameGen_new
    /\ pc' = "locate"
    /\ UNCHANGED <<args, env, fs, run, hooks_per_stage, order, out, err,
                   startFs, prev>>
    /\ UNCHANGED <<san, res>>

(***************************************************************************)
(* Generator::install.                                                     *)
(***************************************************************************)
\* compute_root_hook_path
Install_LocateRoot ==
    /\ pc = "locate"
    /\ IF env.git = "Ok"
       THEN /\ pc' = "clear"
            /\ UNCHANGED <<err, failures>>
       ELSE /\ pc' = "failed"
            /\ err' = Error(IF env.git = "Failed" THEN "error running git"
                            ELSE "no git directory found", "")
            /\ failures' = Append(failures, Failure("compute_root_hook_path", env.git))
    /\ UNCHANGED <<args, env, fs, run, config, name_gen, hooks_per_stage,
                   order, out, startFs, prev>>
    /\ UNCHANGED <<san, res>>

ClearResult(ok, f, error, failed) ==
    [ok |-> ok, fs |-> f, err |-> error, failures |-> failed]

\* clear_hooks that creates the hook directory it did not find
clear_hooks_creating(f) ==
    IF ~read_dir(f).ok
    THEN {ClearResult(TRUE, create_dir_all(f), NoError,
                      <<Failure("read_dir", read_dir(f).kind)>>)}
    ELSE IF remove_candidates(f) = {} \/ CanUnlink(f)
    THEN {ClearResult(TRUE, RemoveAll(f, remove_candidates(f)), NoError, <<>>)}
    ELSE {ClearResult(FALSE, f, Error("removing file", candidate),
                      <<Failure("remove_file", "PermissionDenied")>>) :
            candidate \in remove_candidates(f)}

\* clear_hooks that drops the result of remove_file
clear_hooks_ignoring(f) ==
    IF ~read_dir(f).ok
    THEN {ClearResult(TRUE, f, NoError, <<Failure("read_dir", read_dir(f).kind)>>)}
    ELSE IF remove_candidates(f) = {} \/ CanUnlink(f)
    THEN {ClearResult(TRUE, RemoveAll(f, remove_candidates(f)), NoError, <<>>)}
    ELSE {ClearResult(TRUE, f, NoError,
                      <<Failure("remove_file", "PermissionDenied")>>)}

\* Generator::clear_hooks: the results it can return on a hook directory
clear_hooks(f) ==
    IF ~read_dir(f).ok
    THEN {ClearResult(TRUE, f, NoError, <<Failure("read_dir", read_dir(f).kind)>>)}
    ELSE IF remove_candidates(f) = {} \/ CanUnlink(f)
    THEN {ClearResult(TRUE, RemoveAll(f, remove_candidates(f)), NoError, <<>>)}
    ELSE {ClearResult(FALSE, f, Error("removing file", candidate),
                      <<Failure("remove_file", "PermissionDenied")>>) :
            candidate \in remove_candidates(f)}

\* if !no_remove { clear_hooks }
Install_ClearHooks ==
    /\ pc = "clear"
    /\ IF args.no_remove
       THEN /\ pc' = "group"
            /\ UNCHANGED <<fs, err, failures>>
       ELSE \E r \in clear_hooks(fs) :
            /\ pc' = IF r.ok THEN "group" ELSE "failed"
            /\ fs' = r.fs
            /\ err' = IF r.ok THEN err ELSE r.err
            /\ failures' = failures \o r.failures
    /\ UNCHANGED <<args, env, run, config, name_gen, hooks_per_stage, order,
                   out, startFs, prev>>
    /\ UNCHANGED <<san, res>>

\* let hooks_per_stage = self.hooks_per_stage() and the start of the for loop
Install_GroupByStage ==
    /\ pc = "group"
    /\ hooks_per_stage' = hooks_per_stage_of(config)
    /\ order' \in IterationOrders(hooks_per_stage_of(config))
    /\ pc' = IF config = <<>> THEN "ok" ELSE "stages"
    /\ UNCHANGED <<args, env, fs, run, config, name_gen, out, err, failures,
                   startFs, prev>>
    /\ UNCHANGED <<san, res>>

Handled(stage, hooks, gen, path, before, written) ==
    [stage |-> stage, hooks |-> hooks, ctxs |-> gen.ctxs,
     contents |-> gen.contents, path |-> path, before |-> before,
     written |-> written]

\* one iteration of the for loop: generate_hook(stage, hooks, ...)
Install_GenerateHook ==
    /\ pc = "stages"
    /\ order # <<>>
    /\ LET stage == Head(order)
           hooks == hooks_per_stage[stage]
           gen == generate_hook_contents(hooks, name_gen)
           path == StageStub(stage)
           dirfs == compute_hook_path_fs(fs)
           more == IF Tail(order) = <<>> THEN "ok" ELSE "stages"
       IN  /\ name_gen' = gen.i
           /\ order' = Tail(order)
           /\ IF args.dry_run
              THEN /\ out' = Append(out, Handled(stage, hooks, gen, "", Absent, FALSE))
                   /\ pc' = more
                   /\ UNCHANGED <<fs, err, failures>>
              ELSE IF destination_exists_error(dirfs, path, args.force)
              THEN /\ out' = Append(out, Handled(stage, hooks, gen, path,
                                                  dirfs.entries[path], FALSE))
                   /\ fs' = dirfs
                   /\ pc' = "failed"
                   /\ err' = Error("exists and -f/--force not given", path)
                   /\ failures' = Append(failures, Failure("generate_hook", "DestinationExists"))
              ELSE IF ~CanOpen(dirfs, path)
              THEN /\ out' = Append(out, Handled(stage, hooks, gen, path,
                                                  dirfs.entries[path], FALSE))
                   /\ fs' = dirfs
                   /\ pc' = "failed"
                   /\ err' = Error("creating file", path)
                   /\ failures' = Append(failures, Failure("write_file", "open"))
              ELSE /\ out' = Append(out, Handled(stage, hooks, gen, path,
                                                  dirfs.entries[path], TRUE))
                   /\ fs' = write_file(dirfs, path, gen.contents)
                   /\ pc' = more
                   /\ UNCHANGED <<err, failures>>
    /\ UNCHANGED <<args, env, run, config, hooks_per_stage, startFs, prev>>
    /\ UNCHANGED <<san, res>>

Next ==
    \/ Main_LoadLocal
    \/ Main_LoadGlobal
    \/ Install_LocateRoot
    \/ Install_ClearHooks
    \/ Install_GroupByStage
    \/ Install_GenerateHook

Spec == Init /\ [][Next]_vars

(***************************************************************************)
(* sanitise_name and Hook::context on their own: the install run stays    *)
(* where Init of the run would put it, on a machine without config file.   *)
(***************************************************************************)
InstallIdle ==
    /\ args = [dry_run |-> FALSE, force |-> FALSE, no_remove |-> FALSE]
    /\ env = [local |-> [status |-> "NotFound", hooks |-> <<>>],
              global |-> [status |-> "NotFound", hooks |-> <<>>],
              git |-> "Failed"]
    /\ fs = [dir |-> "absent", entries |-> Listing(Absent, Absent)]
    /\ pc = "start"
    /\ run = 0
    /\ config = <<>>
    /\ name_gen = NameGen_new
    /\ hooks_per_stage = <<>>
    /\ order = <<>>
    /\ out = <<>>
    /\ err = NoError
    /\ failures = <<>>
    /\ startFs = fs
    /\ prev = NoPrev

\* longest name handed to sanitise_name, in characters
MaxNameLen == 3
NameAlphabet == {"T", "i", " ", "\t", "_"}
Names == SeqsUpTo(NameAlphabet, MaxNameLen)

SanitiseInit ==
    /\ InstallIdle
    /\ res = ResIdle
    /\ san \in {[n |-> n, once |-> <<>>, twice |-> <<>>, steps |-> 0] : n \in Names}

\* sanitise_name(n)
Sanitise_Name ==
    /\ san.steps = 0
    /\ san' = [san EXCEPT !.once = sanitise_name(san.n), !.steps = 1]
    /\ UNCHANGED <<installVars, res>>

\* sanitise_name on the result of sanitise_name
Sanitise_Again ==
    /\ san.steps = 1
    /\ san' = [san EXCEPT !.twice = sanitise_name(san.once), !.steps = 2]
    /\ UNCHANGED <<installVars, res>>

SanitiseNext == Sanitise_Name \/ Sanitise_Again

SpecSanitise == SanitiseInit /\ [][SanitiseNext]_vars

\* longest list of hooks handed to Hook::context
MaxResolve == 3
\* number of times a context is built again for a hook that has one
MaxAgain == 1

ResolveNames ==
    {None,
     Some(<<"T", "a", "g", " ", "I", "t">>),
     Some(<<"t", "a", "g", "\t", " ", "i", "t">>),
     Some(<<"h", "o", "o", "k", "_", "0">>)}
ResolveHooks ==
    {Hook(n, <<"c", "t">>, "PreCommit", FALSE, g) :
        n \in ResolveNames, g \in BOOLEAN}

ResolveInit ==
    /\ InstallIdle
    /\ san = SanIdle
    /\ res \in {[hooks |-> hs, given |-> hs, i |-> NameGen_new, ctxs |-> <<>>,
                 again |-> <<>>] : hs \in SeqsUpTo(ResolveHooks, MaxResolve)}

\* h.context(&mut name_gen) for the next hook of the list
Resolve_Context ==
    /\ Len(res.ctxs) < Len(res.hooks)
    /\ LET r == Hook_context(res.hooks[Len(res.ctxs) + 1], res.i)
       IN  res' = [res EXCEPT !.ctxs = Append(@, r.ctx), !.i = r.i]
    /\ UNCHANGED <<installVars, san>>

\* h.context(&mut name_gen) once more for a hook of the list
Resolve_Again ==
    /\ Len(res.ctxs) = Len(res.hooks)
    /\ Len(res.again) < MaxAgain
    /\ \E k \in 1..Len(res.hooks) :
        LET r == Hook_context(res.hooks[k], res.i)
        IN  res' = [res EXCEPT !.again = Append(@, [k |-> k, ctx |-> r.ctx]),
                               !.i = r.i]
    /\ UNCHANGED <<installVars, san>>

ResolveNext == Resolve_Context \/ Resolve_Again

SpecResolve == ResolveInit /\ [][ResolveNext]_vars

(***************************************************************************)
(* Properties.                                                             *)
(***************************************************************************)
Nameless(h) == ~h.name.some

\* position in the config of the k-th hook declared for a stage
ConfigIndex(cfg, stage, k) ==
    CHOOSE i \in 1..Len(cfg) :
        /\ cfg[i].stage = stage
        /\ Cardinality({j \in 1..i : cfg[j].stage = stage}) = k

\* number of nameless hooks declared before position i of the config
NamelessBefore(cfg, i) == Cardinality({j \in 1..(i - 1) : Nameless(cfg[j])})

WrittenStages == {k \in 1..Len(out) : out[k].written}

\* C1: an install run with dry_run set leaves the hook directory, its
\* listing and the contents of its files as they were when the run started.
C1_DryRunLeavesHookDir == args.dry_run => fs = startFs

\* C2: in a run without dry_run, a stage whose destination exists when it
\* is to be written, with force unset, ends the run with the error that
\* names the destination, and the entry at the destination stays as it was.
C2_OverwriteProtection ==
    \A k \in 1..Len(out) :
        (~args.dry_run /\ out[k].before.kind # "absent" /\ ~args.force)
        => /\ pc = "failed"
           /\ ~out[k].written
           /\ err = Error("exists and -f/--force not given", StageStub(out[k].stage))
           /\ fs.entries[StageStub(out[k].stage)] = out[k].before

\* a run stopped by an existing file at the destination of its stage
C2_Witness ==
    /\ pc = "failed"
    /\ ~args.dry_run /\ ~args.force
    /\ out # <<>>
    /\ out[Len(out)].before = OldFile
    /\ err.kind = "exists and -f/--force not given"
    /\ fs.entries[out[Len(out)].path] = OldFile

\* C3: when both configuration files load, the run works on the local
\* file's hooks in declared order followed by the global file's hooks.
C3_LocalThenGlobal ==
    (pc \notin {"start", "load_global"}
        /\ env.local.status = "Ok" /\ env.global.status = "Ok")
    => config = env.local.hooks \o env.global.hooks

\* C4: the N-th nameless hook of the config, counted from 0 in declaration
\* order, resolves to hook_N.
C4_NthNamelessIsHookN ==
    \A k \in 1..Len(out) : \A j \in 1..Len(out[k].hooks) :
        Nameless(out[k].hooks[j])
        => out[k].ctxs[j].name =
             HookPrefix \o Decimal(NamelessBefore(config,
                                      ConfigIndex(config, out[k].stage, j)))

\* C5: a second run over the same config renders, for every stage, the
\* script the first run rendered.
C5_SameScriptsEveryRun ==
    prev.valid =>
        \A a \in 1..Len(out) : \A b \in 1..Len(prev.out) :
            out[a].stage = prev.out[b].stage
            => out[a].contents = prev.out[b].contents

\* C6: a second run with the same config and options, dry_run unset,
\* succeeds when the first did and leaves the hook directory as the first
\* left it.  Stated for runs that clear the directory (no_remove unset),
\* where no script of the first run is left to stop the second.
C6_Idempotent ==
    (prev.valid /\ prev.pc = "ok" /\ Ended /\ ~args.dry_run /\ ~args.no_remove)
    => (pc = "ok" /\ fs = prev.fs)

\* C7: after a successful write of a stage, the destination holds exactly
\* the rendered script.
C7_WrittenIsRendered ==
    \A k \in WrittenStages :
        /\ fs.entries[out[k].path].kind = "file"
        /\ fs.entries[out[k].path].content = out[k].contents

\* C8: after a successful write_file, the file is executable by its owner
\* and by its group, newly created or overwritten.
C8_WrittenIsExecutable ==
    \A k \in WrittenStages :
        /\ OwnerExec(fs.entries[out[k].path].mode)
        /\ GroupExec(fs.entries[out[k].path].mode)

\* C9: a run whose local config, or whose present global config, is
\* unreadable or malformed ends in an error before the install starts.
C9_ConfigFailureIsFatal ==
    (pc \notin {"start", "load_global"}
        /\ (env.local.status # "Ok"
            \/ env.global.status \in {"Unreadable", "Malformed"}))
    => (pc = "failed" /\ out = <<>> /\ fs = startFs)

\* C10: every failure of an operation of install ends the run, except
\* read_dir finding no hook directory.
C10_FailuresAreTerminal ==
    \A k \in 1..Len(failures) :
        (failures[k].op \notin {"local_config", "global_config"}
            /\ failures[k] # Failure("read_dir", "NotFound"))
        => pc = "failed"

\* C11: clearing a hook directory that does not exist succeeds and leaves it
\* absent; the directory appears only with the first stage handled by a run
\* without dry_run, so a run that writes nothing never creates it.
C11_DirCreatedAtFirstWrite ==
    startFs.dir = "absent"
    => /\ (out = <<>> \/ args.dry_run) => fs = startFs
       /\ (out # <<>> /\ ~args.dry_run) => fs.dir # "absent"
       /\ (\E k \in 1..Len(failures) : failures[k] = Failure("read_dir", "NotFound"))
            => (pc # "failed" /\ err = NoError)

\* a run that cleared a missing hook directory and has written nothing yet
C11_Witness ==
    /\ startFs.dir = "absent" /\ fs.dir = "absent"
    /\ ~args.no_remove /\ ~args.dry_run
    /\ pc = "stages" /\ out = <<>>
    /\ failures[Len(failures)] = Failure("read_dir", "NotFound")

HooksOfStage(cfg, stage) == SelectSeq(cfg, LAMBDA h : h.stage = stage)
StagesWithHooks(cfg) == {cfg[i].stage : i \in 1..Len(cfg)}

\* C12: once install has grouped the hooks, the map holds for every stage
\* the config's hooks of that stage in declared order, has no entry for a
\* stage without hooks, and only stages with hooks are rendered or written.
C12_GroupingKeepsOrder ==
    (pc \in {"stages", "ok"} \/ out # <<>>)
    => /\ DOMAIN hooks_per_stage = StagesWithHooks(config)
       /\ \A s \in DOMAIN hooks_per_stage :
            hooks_per_stage[s] = HooksOfStage(config, s)
       /\ \A k \in 1..Len(out) :
            /\ out[k].stage \in StagesWithHooks(config)
            /\ out[k].hooks = HooksOfStage(config, out[k].stage)

\* grouped: one stage holds two different hooks, another stage has none
C12_Witness ==
    /\ pc = "stages"
    /\ \E s \in DOMAIN hooks_per_stage :
        /\ Len(hooks_per_stage[s]) = 2
        /\ hooks_per_stage[s][1] # hooks_per_stage[s][2]
    /\ \E s \in Stages : s \notin DOMAIN hooks_per_stage

RegularFiles(f) == {n \in EntryNames : f.entries[n].kind = "file"}

\* C13: after a successful install without dry_run and with clearing, the
\* regular files in the hook directory are exactly the scripts of the
\* stages that have hooks, each named by its stage's stub.
C13_OneFilePerStage ==
    (pc = "ok" /\ ~args.dry_run /\ ~args.no_remove)
    => RegularFiles(fs) = {StageStub(s) : s \in StagesWithHooks(config)}

\* C17: a clearing step that is not skipped and lets the run go on removes
\* every regular file directly inside the hook directory and nothing else.
C17_ClearRemovesRegularFiles ==
    [][(pc = "clear" /\ pc' = "group" /\ ~args.no_remove)
        => fs' = [fs EXCEPT !.entries =
                    [n \in EntryNames |->
                        IF fs.entries[n].kind = "file" THEN Absent
                        ELSE fs.entries[n]]]]_vars

GitErrors == {"error running git", "no git directory found"}

\* C19: LocateRoot, then clearing, then grouping, then one Render and Write
\* per stage.  A run that fails at LocateRoot touches nothing, nothing is
\* removed once a stage has been handled, and a failed Write is the last
\* stage attempted while the scripts written before it keep their rendered
\* content.
C19_StepsInOrder ==
    /\ err.kind \in GitErrors => (fs = startFs /\ out = <<>>)
    /\ pc \in {"start", "load_global", "locate", "clear", "group"} => out = <<>>
    /\ (out # <<>> /\ args.no_remove) => RegularFiles(startFs) \subseteq RegularFiles(fs)
    /\ (pc = "failed" /\ out # <<>>)
        => /\ ~out[Len(out)].written
           /\ \A k \in 1..(Len(out) - 1) : out[k].written
           /\ \A k \in WrittenStages :
                /\ fs.entries[out[k].path].kind = "file"
                /\ fs.entries[out[k].path].content = out[k].contents

RemoveFailed == \E k \in 1..Len(failures) : failures[k].op = "remove_file"

\* C18: when remove_file fails during clearing, the run ends with the error
\* that names a file still in the hook directory, and no stage is rendered
\* or written in that run.
C18_RemoveFailureAborts ==
    RemoveFailed
    => /\ pc = "failed"
       /\ err.kind = "removing file"
       /\ err.path \in RegularFiles(fs)
       /\ out = <<>>
       /\ name_gen = NameGen_new
       /\ \A n \in EntryNames : fs.entries[n] \in {startFs.entries[n], Absent}

\* a run with hooks to install stopped by a file that cannot be removed
C18_Witness ==
    /\ pc = "failed"
    /\ RemoveFailed
    /\ config # <<>>
    /\ err.kind = "removing file"
    /\ fs.entries[err.path] = OldFile

\* the resolved names of the nameless hooks of one handled stage, in order
GeneratedIn(handled) ==
    LET idx == SelectSeq([j \in 1..Len(handled.hooks) |-> j],
                         LAMBDA j : Nameless(handled.hooks[j]))
    IN  [m \in 1..Len(idx) |-> handled.ctxs[idx[m]].name]

\* the names generated so far in the run, in the order of generation
RECURSIVE GeneratedNames(_)
GeneratedNames(o) ==
    IF o = <<>> THEN <<>> ELSE GeneratedIn(Head(o)) \o GeneratedNames(Tail(o))

\* C20: the counter starts at 0, grows by one per generated name and is not
\* reset between stages: the k names generated so far in a run are
\* hook_0 .. hook_{k-1}, pairwise distinct, and the counter stands at k.
C20_CounterNamesInSequence ==
    LET g == GeneratedNames(out)
    IN  /\ name_gen = Len(g)
        /\ \A n \in 1..Len(g) : g[n] = HookPrefix \o <<Digits[n]>>
        /\ \A a, b \in 1..Len(g) : a # b => g[a] # g[b]

\* two stages handled, each with a nameless hook
C20_Witness ==
    /\ Len(out) = 2
    /\ GeneratedIn(out[1]) # <<>>
    /\ GeneratedIn(out[2]) # <<>>
    /\ name_gen = 2

ResolvedPairs == {p \in (1..Len(res.ctxs)) \X (1..Len(res.ctxs)) : p[1] # p[2]}

\* C14 as claimed: any two hooks of a run receive different resolved names.
C14_AllNamesUnique ==
    \A p \in ResolvedPairs : res.ctxs[p[1]].name # res.ctxs[p[2]].name

\* C14 as amended: any two nameless hooks of a run receive different
\* resolved names; the name of a named hook may equal another hook's.
C14_NamelessNamesUnique ==
    \A p \in ResolvedPairs :
        (Nameless(res.hooks[p[1]]) /\ Nameless(res.hooks[p[2]]))
        => res.ctxs[p[1]].name # res.ctxs[p[2]].name

\* two nameless hooks resolved, and a named hook resolved to the name of one
C14_Witness ==
    /\ \E p \in ResolvedPairs :
        Nameless(res.hooks[p[1]]) /\ Nameless(res.hooks[p[2]])
    /\ \E p \in ResolvedPairs :
        /\ Nameless(res.hooks[p[1]]) /\ ~Nameless(res.hooks[p[2]])
        /\ res.ctxs[p[1]].name = res.ctxs[p[2]].name

\* C15: sanitising a sanitised name returns it unchanged.
C15_SanitiseIdempotent == san.steps = 2 => san.twice = san.once

\* a name with upper case and whitespace, sanitised twice
C15_Witness ==
    /\ san.steps = 2
    /\ san.once # san.n
    /\ \E k \in 1..Len(san.n) : IsWhitespace(san.n[k])
    /\ \E k \in 1..Len(san.n) : LowerChar(san.n[k]) # san.n[k]
    /\ \E k \in 1..Len(san.once) : san.once[k] = "_"

\* C16: with pass_git_files the resolved command is the hook's command, one
\* space and the file-list expression, once; without it, the hook's command.
\* A context built again for the same hook has the same command, and the
\* hooks keep their commands.
C16_GitFilesAppendedOnce ==
    /\ res.hooks = res.given
    /\ \A k \in 1..Len(res.ctxs) :
        LET h == res.hooks[k]
            c == res.ctxs[k].command
        IN  IF h.pass_git_files
            THEN /\ Len(c) = Len(h.command) + 1 + Len(GitFilesExpr)
                 /\ SubSeq(c, 1, Len(h.command)) = h.command
                 /\ c[Len(h.command) + 1] = " "
                 /\ SubSeq(c, Len(h.command) + 2, Len(c)) = GitFilesExpr
            ELSE c = h.command
    /\ \A a \in 1..Len(res.again) :
        res.again[a].ctx.command = res.ctxs[res.again[a].k].command

\* the context of a hook with pass_git_files built a second time
C16_Witness ==
    /\ res.again # <<>>
    /\ res.hooks[res.again[1].k].pass_git_files
    /\ Len(res.again[1].ctx.command) > Len(res.hooks[res.again[1].k].command)
====
